---- MODULE Spec2Model ----
(***************************************************************************)
(* touch2: change the last-inode-change time (ctime) of files by setting   *)
(* the system clock to the desired instant, calling chmod(2) to make the   *)
(* kernel stamp the inode, and setting the clock back.                     *)
(*                                                                         *)
(* The model follows src/touch2.c (the v2.0 revision, lines 308-671; the   *)
(* older revision at lines 1-306 has the same control flow).  C strings    *)
(* are sequences of one-character strings, struct timeval is a record      *)
(* [tv_sec, tv_usec], and each system call is one step whose result (ok,   *)
(* EINTR, another error) is chosen by the environment.                     *)
(***************************************************************************)
EXTENDS Integers, Sequences, FiniteSets, TLC

(***************************************************************************)
(* Bounds of the model.                                                    *)
(***************************************************************************)
\* number of option items on a command line
MaxOpts == 2
\* number of EINTR results the environment hands out in one run
MaxEintr == 1
\* number of seconds the real time advances during one run
MaxTicks == 1
\* number of system calls that fail with an error other than EINTR in one
\* run (the retries of a failed chmod are not counted again)
MaxFaults == 2
\* the per-file call counters and -status stop counting here
MaxCount == 2

(***************************************************************************)
(* C strings and the libc functions the program uses on them.              *)
(***************************************************************************)
\* argv[argc], a missing option argument
NULL == <<"NULL">>

Digits == {"0", "1", "2", "3", "4", "5", "6", "7", "8", "9"}

DigitVal(c) ==
    CASE c = "0" -> 0 [] c = "1" -> 1 [] c = "2" -> 2 [] c = "3" -> 3
      [] c = "4" -> 4 [] c = "5" -> 5 [] c = "6" -> 6 [] c = "7" -> 7
      [] c = "8" -> 8 [] c = "9" -> 9

\* nstrchr(s, c): the number of occurrences of c in s
RECURSIVE nstrchr(_, _)
nstrchr(s, c) ==
    IF s = NULL \/ s = <<>> THEN 0
    ELSE (IF Head(s) = c THEN 1 ELSE 0) + nstrchr(Tail(s), c)

\* strchr(s, c): the index of the first c in s, 0 when there is none
RECURSIVE strchrFrom(_, _, _)
strchrFrom(s, c, k) ==
    IF k > Len(s) THEN 0
    ELSE IF s[k] = c THEN k
    ELSE strchrFrom(s, c, k + 1)

strchr(s, c) == strchrFrom(s, c, 1)

\* the value of the run of decimal digits s starts with, acc so far
RECURSIVE digitsVal(_, _)
digitsVal(s, acc) ==
    IF s = <<>> \/ Head(s) \notin Digits THEN acc
    ELSE digitsVal(Tail(s), 10 * acc + DigitVal(Head(s)))

RECURSIVE skipSpace(_)
skipSpace(s) ==
    IF s # <<>> /\ Head(s) = " " THEN skipSpace(Tail(s)) ELSE s

\* atoi(s), atol(s): optional blanks, optional sign, decimal digits;
\* 0 when no digits follow
atoi(s) ==
    LET t == skipSpace(s) IN
    IF t = <<>> THEN 0
    ELSE IF Head(t) = "-" THEN 0 - digitsVal(Tail(t), 0)
    ELSE IF Head(t) = "+" THEN digitsVal(Tail(t), 0)
    ELSE digitsVal(t, 0)

(***************************************************************************)
(* Calendar arithmetic of mktime(3) and localtime(3), proleptic Gregorian. *)
(***************************************************************************)
\* seconds east of UTC of the local time zone (no daylight saving time)
gmtoff == 0

days_from_civil(y0, m, d) ==
    LET y   == IF m <= 2 THEN y0 - 1 ELSE y0
        era == y \div 400
        yoe == y - era * 400
        mp  == IF m > 2 THEN m - 3 ELSE m + 9
        doy == (153 * mp + 2) \div 5 + d - 1
        doe == yoe * 365 + yoe \div 4 - yoe \div 100 + doy
    IN  era * 146097 + doe - 719468

civil_from_days(z0) ==
    LET z   == z0 + 719468
        era == z \div 146097
        doe == z - era * 146097
        yoe == (doe - doe \div 1460 + doe \div 36524 - doe \div 146096) \div 365
        doy == doe - (365 * yoe + yoe \div 4 - yoe \div 100)
        mp  == (5 * doy + 2) \div 153
        d   == doy - (153 * mp + 2) \div 5 + 1
        m   == IF mp < 10 THEN mp + 3 ELSE mp - 9
        y   == yoe + era * 400 + (IF m <= 2 THEN 1 ELSE 0)
    IN  [year |-> y, mon |-> m, mday |-> d]

\* localtime(&t): the broken-down local time of t seconds since the epoch
localtime(t) ==
    LET l   == t + gmtoff
        day == l \div 86400
        rem == l % 86400
        c   == civil_from_days(day)
    IN  [tm_year |-> c.year - 1900, tm_mon |-> c.mon - 1, tm_mday |-> c.mday,
         tm_hour |-> rem \div 3600, tm_min |-> (rem % 3600) \div 60,
         tm_sec |-> rem % 60]

\* mktime(&tm): seconds since the epoch of a broken-down local time, whose
\* fields may lie outside their ranges
mktime(tm) ==
    LET y == tm.tm_year + 1900 + (tm.tm_mon \div 12)
        m == (tm.tm_mon % 12) + 1
    IN  (days_from_civil(y, m, 1) + tm.tm_mday - 1) * 86400
          + tm.tm_hour * 3600 + tm.tm_min * 60 + tm.tm_sec - gmtoff

(***************************************************************************)
(* struct timeval.                                                         *)
(***************************************************************************)
Zero == [tv_sec |-> 0, tv_usec |-> 0]

timerisset(tv) == tv.tv_sec # 0 \/ tv.tv_usec # 0

\* the string s from index k on
From(s, k) == SubSeq(s, k, Len(s))

\* s = strchr(s, DELIM) + 1
Skip(s) == From(s, strchr(s, ":") + 1)

\* a str2timeval that keeps the month of the literal 1-based
str2timevalMonthKept(s, t) ==
    LET tp  == localtime(t)
        n   == nstrchr(s, ":")
        s1  == IF n > 4 THEN Skip(s) ELSE s
        s2  == IF n > 3 THEN Skip(s1) ELSE s1
        s3  == IF n > 2 THEN Skip(s2) ELSE s2
        s4  == IF n > 1 THEN Skip(s3) ELSE s3
        s5  == IF n > 0 THEN Skip(s4) ELSE s4
        tm  == [tm_year |-> IF n > 4 THEN atoi(s) - 1900 ELSE tp.tm_year,
                tm_mon  |-> IF n > 3 THEN atoi(s1) ELSE tp.tm_mon,
                tm_mday |-> IF n > 2 THEN atoi(s2) ELSE tp.tm_mday,
                tm_hour |-> IF n > 1 THEN atoi(s3) ELSE tp.tm_hour,
                tm_min  |-> IF n > 0 THEN atoi(s4) ELSE tp.tm_min,
                tm_sec  |-> atoi(s5)]
        dot == strchr(s5, ".")
        frac == From(s5, dot + 1)
    IN  [tv_sec  |-> mktime(tm),
         tv_usec |-> IF dot # 0 /\ frac # <<>> THEN atoi(frac) ELSE 0]

\* str2timeval(s, tvp) called when time(NULL) returns t: the value left
\* in *tvp for the literal "[[[YYYY:]MM:]DD:]hh:mm:ss[.uuuuuu]"
str2timeval(s, t) ==
    LET tp  == localtime(t)
        n   == nstrchr(s, ":")
        s1  == IF n > 4 THEN Skip(s) ELSE s
        s2  == IF n > 3 THEN Skip(s1) ELSE s1
        s3  == IF n > 2 THEN Skip(s2) ELSE s2
        s4  == IF n > 1 THEN Skip(s3) ELSE s3
        s5  == IF n > 0 THEN Skip(s4) ELSE s4
        tm  == [tm_year |-> IF n > 4 THEN atoi(s) - 1900 ELSE tp.tm_year,
                tm_mon  |-> IF n > 3 THEN atoi(s1) - 1 ELSE tp.tm_mon,
                tm_mday |-> IF n > 2 THEN atoi(s2) ELSE tp.tm_mday,
                tm_hour |-> IF n > 1 THEN atoi(s3) ELSE tp.tm_hour,
                tm_min  |-> IF n > 0 THEN atoi(s4) ELSE tp.tm_min,
                tm_sec  |-> atoi(s5)]
        dot == strchr(s5, ".")
        frac == From(s5, dot + 1)
    IN  [tv_sec  |-> mktime(tm),
         tv_usec |-> IF dot # 0 /\ frac # <<>> THEN atoi(frac) ELSE 0]

(***************************************************************************)
(* The inputs of a run: command lines, the file system, the clock.         *)
(***************************************************************************)
OptA == <<"-", "a">>
OptM == <<"-", "m">>
OptR == <<"-", "r">>
OptT == <<"-", "t">>
OptH == <<"-", "h">>
OptX == <<"-", "x">>

FileF == <<"f">>
FileG == <<"g">>
FileH == <<"h">>

\* -t 2021:06:15:10:30:00.500000
LitFull == <<"2", "0", "2", "1", ":", "0", "6", ":", "1", "5", ":",
             "1", "0", ":", "3", "0", ":", "0", "0", ".",
             "5", "0", "0", "0", "0", "0">>
\* -t 1970:01:01:00:00:00, the epoch itself
LitEpoch == <<"1", "9", "7", "0", ":", "0", "1", ":", "0", "1", ":",
              "0", "0", ":", "0", "0", ":", "0", "0">>

Literals == {LitFull, LitEpoch}

\* literals with 0, 1, 2, 3, 4 and 6 delimiters: one that is no number, one
\* with seven digits after the dot, one with a field that is no number
LitWord   == <<"x">>
LitMinSec == <<"0", "7", ":", "0", "8", ".", "1", "2", "3", "4", "5", "6", "7">>
LitHour   == <<"1", ":", "x", ":", "3">>
LitDay    == <<"9", ":", "1", ":", "2", ":", "3", ".", "5">>
LitMonth  == <<"3", ":", "9", ":", "1", ":", "2", ":", "3">>
LitSeven  == <<"2", "0", "2", "1", ":", "6", ":", "1", "5", ":", "1", "0", ":",
               "3", "0", ":", "7", ":", "9">>

ParseLiterals == {LitWord, LitMinSec, LitHour, LitDay, LitMonth, LitSeven}

\* one option with its argument, as consecutive elements of argv
OptItems ==
    {<<OptA>>, <<OptM>>, <<OptH>>, <<OptX>>, <<OptR, FileG>>}
      \cup {<<OptT, l>> : l \in Literals}

RECURSIVE OptSeqs(_)
OptSeqs(k) ==
    IF k = 0 THEN {<<>>}
    ELSE OptSeqs(k - 1) \cup {p \o o : p \in OptSeqs(k - 1), o \in OptItems}

\* the target files of the longest command line
AllFiles == <<FileF, FileG>>

MaxFiles == Len(AllFiles)

FileSeqs == {SubSeq(AllFiles, 1, k) : k \in 0..MaxFiles}

\* the option prefixes that are run with every list of target files
RunOpts == {<<>>, <<OptT, LitFull>>, <<OptA>>, <<OptM>>, <<OptR, FileH>>}

\* command lines that end in an option whose argument is missing
Truncated == {<<OptR>>, <<OptT>>, <<OptA, OptR>>}

\* argv[1..argc-1]: every option prefix alone and with one target file, the
\* prefixes of RunOpts with each list of target files, -t with each of
\* ParseLiterals and one target file, and Truncated
ArgvSet ==
    {o \o f : o \in OptSeqs(MaxOpts), f \in {<<>>, <<FileF>>}}
      \cup {o \o f : o \in RunOpts, f \in FileSeqs}
      \cup {<<OptT, l, FileF>> : l \in ParseLiterals}
      \cup Truncated

\* what stat(2) returns for the files that exist
FS0 ==
    (FileF :> [st_mode |-> 420,
               st_atim |-> [tv_sec |-> 1600000000, tv_nsec |-> 123456789],
               st_mtim |-> [tv_sec |-> 1500000000, tv_nsec |-> 999],
               st_ctim |-> [tv_sec |-> 1610000000, tv_nsec |-> 5000]])
 @@ (FileG :> [st_mode |-> 384,
               st_atim |-> [tv_sec |-> 1400000000, tv_nsec |-> 0],
               st_mtim |-> [tv_sec |-> 0, tv_nsec |-> 0],
               st_ctim |-> [tv_sec |-> 1450000000, tv_nsec |-> 250000000]])
 @@ (FileH :> [st_mode |-> 493,
               st_atim |-> [tv_sec |-> 0, tv_nsec |-> 0],
               st_mtim |-> [tv_sec |-> 1550000000, tv_nsec |-> 1000],
               st_ctim |-> [tv_sec |-> 1560000000, tv_nsec |-> 0]])

\* the host clock when the program starts
BootTime == [tv_sec |-> 1700000000, tv_usec |-> 42]

Signals == {"SIGINT", "SIGTERM"}

\* the signal mask the process inherits
InitMask == {"SIGINT"}

\* what is recorded about the call of change_ctime for argv[j]: the number
\* of calls of each system call, the ones that failed with an error other
\* than EINTR, the value returned and the diagnostics main printed
Hist0 == [stat |-> 0, block |-> 0, set |-> 0, chmod |-> 0, restore |-> 0,
          unblock |-> 0, failed |-> {}, returned |-> FALSE, ret |-> 0,
          diag |-> 0]

\* what is recorded about the latest call of change_ctime: the index of its
\* file, the signal mask at entry, the clock, the real time and the clock's
\* lag behind it when gettimeofday() captured now, and the real time when
\* settimeofday(&now) wrote it back
Win0 == [idx |-> 0, entryMask |-> {}, capClock |-> Zero, capTicks |-> 0,
         capLag |-> 0, resTicks |-> 0]

(***************************************************************************)
(* The state.                                                              *)
(***************************************************************************)
VARIABLES
    args,        \* argv[1..argc-1]
    pc,          \* where the program is
    exitcode,    \* the argument of exit()
    i,           \* main: index into argv
    use_atime, use_mtime, new_ctime, rfile,
    ctime, now, inode, status,               \* change_ctime's locals
    newsigmask, oldsigmask,
    clock,       \* the host clock (settimeofday writes it)
    ticks,       \* seconds of real time elapsed since the start
    swappedBy,   \* the clock holds the target written by the call for
                 \* argv[swappedBy], 0 when it holds no target
    fs,          \* the inodes
    sigmask,     \* the process signal mask
    pending,     \* blocked signals waiting for delivery
    faults,      \* failed system calls so far
    eintr,       \* EINTR results so far
    spin,        \* flips at every chmod(2) call
    hist,        \* per argv index, what change_ctime did
    win          \* the capture and the restore of the current call

mainVars == <<args, exitcode, i, use_atime, use_mtime, new_ctime, rfile>>
localVars == <<ctime, now, inode, status, newsigmask, oldsigmask>>
envVars == <<clock, ticks, swappedBy, fs, sigmask, pending, faults, eintr, spin>>
vars == <<mainVars, pc, localVars, envVars, hist, win>>

argc == Len(args) + 1

\* argv[k]
Arg(k) == IF k >= 1 /\ k < argc THEN args[k] ELSE NULL

\* argv[k][j-1]
CharAt(k, j) == IF Len(Arg(k)) >= j THEN Arg(k)[j] ELSE "\\0"

Bump(n) == IF n < MaxCount THEN n + 1 ELSE n

\* status--
Dec(n) == IF n > 0 - MaxCount THEN n - 1 ELSE n

NoInode == [st_mode |-> 0,
            st_atim |-> [tv_sec |-> 0, tv_nsec |-> 0],
            st_mtim |-> [tv_sec |-> 0, tv_nsec |-> 0],
            st_ctim |-> [tv_sec |-> 0, tv_nsec |-> 0]]

Init ==
    /\ args \in ArgvSet
    /\ pc = "opts"
    /\ exitcode = 0
    /\ i = 1
    /\ use_atime = FALSE
    /\ use_mtime = FALSE
    /\ new_ctime = Zero
    /\ rfile = NULL
    /\ ctime = Zero
    /\ now = Zero
    /\ inode = NoInode
    /\ status = 0
    /\ newsigmask = {}
    /\ oldsigmask = {}
    /\ clock = BootTime
    /\ ticks = 0
    /\ swappedBy = 0
    /\ fs = FS0
    /\ sigmask = InitMask
    /\ pending = {}
    /\ faults = 0
    /\ eintr = 0
    /\ spin = FALSE
    /\ hist = [j \in 1..Len(args) |-> Hist0]
    /\ win = Win0

(***************************************************************************)
(* main: the options.                                                      *)
(***************************************************************************)
\* exit_usage(status), exit(status)
Exit(code) ==
    /\ pc' = "exit"
    /\ exitcode' = code

AtOption(c) ==
    /\ pc = "opts"
    /\ i < argc
    /\ CharAt(i, 1) = "-"
    /\ CharAt(i, 2) = c

\* case 'a'
CaseA ==
    /\ AtOption("a")
    /\ IF use_mtime \/ timerisset(new_ctime)
       THEN Exit(1) /\ UNCHANGED <<i, use_atime>>
       ELSE use_atime' = TRUE /\ i' = i + 1 /\ UNCHANGED <<pc, exitcode>>
    /\ UNCHANGED <<args, use_mtime, new_ctime, rfile, localVars, envVars, hist, win>>

\* case 'm'
CaseM ==
    /\ AtOption("m")
    /\ IF use_atime \/ timerisset(new_ctime)
       THEN Exit(1) /\ UNCHANGED <<i, use_mtime>>
       ELSE use_mtime' = TRUE /\ i' = i + 1 /\ UNCHANGED <<pc, exitcode>>
    /\ UNCHANGED <<args, use_atime, new_ctime, rfile, localVars, envVars, hist, win>>

\* case 'r'
CaseR ==
    /\ AtOption("r")
    /\ IF timerisset(new_ctime)
       THEN Exit(1) /\ UNCHANGED <<i, rfile>>
       ELSE /\ rfile' = Arg(i + 1)
            /\ IF Arg(i + 1) = NULL
               THEN Exit(1) /\ i' = i + 1
               ELSE i' = i + 2 /\ UNCHANGED <<pc, exitcode>>
    /\ UNCHANGED <<args, use_atime, use_mtime, new_ctime, localVars, envVars, hist, win>>

\* case 't'
CaseT ==
    /\ AtOption("t")
    /\ IF use_atime \/ use_mtime \/ rfile # NULL
       THEN Exit(1) /\ UNCHANGED <<i, new_ctime>>
       ELSE IF Arg(i + 1) = NULL
       THEN Exit(1) /\ i' = i + 1 /\ UNCHANGED new_ctime
       ELSE /\ new_ctime' = str2timeval(Arg(i + 1), clock.tv_sec)
            /\ i' = i + 2
            /\ UNCHANGED <<pc, exitcode>>
    /\ UNCHANGED <<args, use_atime, use_mtime, rfile, localVars, envVars, hist, win>>

\* case 'h'
CaseH ==
    /\ AtOption("h")
    /\ Exit(0)
    /\ UNCHANGED <<args, i, use_atime, use_mtime, new_ctime, rfile, localVars,
                   envVars, hist, win>>

\* default
CaseDefault ==
    /\ pc = "opts"
    /\ i < argc
    /\ CharAt(i, 1) = "-"
    /\ CharAt(i, 2) \notin {"a", "m", "r", "t", "h"}
    /\ Exit(1)
    /\ UNCHANGED <<args, i, use_atime, use_mtime, new_ctime, rfile, localVars,
                   envVars, hist, win>>

\* the option loop ends: no argument left, or one that is no option
OptsEnd ==
    /\ pc = "opts"
    /\ i >= argc \/ CharAt(i, 1) # "-"
    /\ IF i >= argc
       THEN Exit(1)
       ELSE /\ pc' = IF rfile # NULL THEN "rstat" ELSE "loop"
            /\ UNCHANGED exitcode
    /\ UNCHANGED <<args, i, use_atime, use_mtime, new_ctime, rfile, localVars,
                   envVars, hist, win>>

(***************************************************************************)
(* main: the reference file and the loop over the target files.            *)
(***************************************************************************)
\* tv_sec = st_Xtime, tv_usec = ST_XTIME_NSEC / 1000
TimeOf(ts) == [tv_sec |-> ts.tv_sec, tv_usec |-> ts.tv_nsec \div 1000]

\* the running program, as opposed to one that exited or was killed
Running == pc \notin {"exit", "killed"}

\* a system call fails with an error other than EINTR
Fault ==
    /\ faults < MaxFaults
    /\ faults' = faults + 1

\* a system call fails with EINTR
Eintr ==
    /\ eintr < MaxEintr
    /\ eintr' = eintr + 1

RStatOk ==
    /\ pc = "rstat"
    /\ rfile \in DOMAIN fs
    /\ new_ctime' = IF use_atime THEN TimeOf(fs[rfile].st_atim)
                    ELSE IF use_mtime THEN TimeOf(fs[rfile].st_mtim)
                    ELSE TimeOf(fs[rfile].st_ctim)
    /\ pc' = "loop"
    /\ UNCHANGED <<args, exitcode, i, use_atime, use_mtime, rfile, localVars,
                   envVars, hist, win>>

RStatEintr ==
    /\ pc = "rstat"
    /\ Eintr
    /\ UNCHANGED <<mainVars, pc, localVars, clock, ticks, swappedBy, fs, sigmask,
                   pending, faults, spin, hist, win>>

RStatErr ==
    /\ pc = "rstat"
    /\ Fault
    /\ Exit(1)
    /\ UNCHANGED <<args, i, use_atime, use_mtime, new_ctime, rfile, localVars,
                   clock, ticks, swappedBy, fs, sigmask, pending, eintr, spin,
                   hist, win>>

\* change_ctime(argv[i], new_ctime) is called
Call ==
    /\ pc = "loop"
    /\ i < argc
    /\ pc' = "stat"
    /\ ctime' = new_ctime
    /\ status' = 0
    /\ now' = Zero
    /\ inode' = NoInode
    /\ newsigmask' = {}
    /\ oldsigmask' = {}
    /\ win' = [Win0 EXCEPT !.idx = i, !.entryMask = sigmask]
    /\ UNCHANGED <<mainVars, envVars, hist>>

\* the loop is over: exit(0)
Done ==
    /\ pc = "loop"
    /\ i >= argc
    /\ Exit(0)
    /\ UNCHANGED <<args, i, use_atime, use_mtime, new_ctime, rfile, localVars,
                   envVars, hist, win>>

\* a main whose loop does not advance: change_ctime returns v and the same
\* argv[i] is processed again
ReturnSameFile(h, v) ==
    /\ hist' = [h EXCEPT ![i].returned = TRUE,
                         ![i].ret = v,
                         ![i].diag = IF v < 0 THEN @ + 1 ELSE @]
    /\ i' = i
    /\ pc' = "loop"
    /\ UNCHANGED exitcode

\* change_ctime returns v: main prints its diagnostic when v < 0, and i++
Return(h, v) ==
    /\ hist' = [h EXCEPT ![i].returned = TRUE,
                         ![i].ret = v,
                         ![i].diag = IF v < 0 THEN @ + 1 ELSE @]
    /\ i' = i + 1
    /\ pc' = "loop"
    /\ UNCHANGED exitcode

(***************************************************************************)
(* change_ctime(file, ctime), file = argv[i].                              *)
(***************************************************************************)
Called(h, step) == [h EXCEPT ![i][step] = Bump(@)]

Failed(h, step) == [h EXCEPT ![i].failed = @ \cup {step}]

\* if (!timerisset(&ctime)): the file's own atime or mtime
Derive(ct, ino) ==
    IF timerisset(ct) THEN ct
    ELSE IF use_atime THEN TimeOf(ino.st_atim)
    ELSE IF use_mtime THEN TimeOf(ino.st_mtim)
    ELSE ct

\* a change_ctime whose stat does not fill in the inode
StatOkStaleInode ==
    /\ pc = "stat"
    /\ Arg(i) \in DOMAIN fs
    /\ ctime' = Derive(ctime, inode)
    /\ pc' = "gettime"
    /\ hist' = Called(hist, "stat")
    /\ UNCHANGED <<mainVars, now, inode, status, newsigmask, oldsigmask,
                   envVars, win>>

StatOk ==
    /\ pc = "stat"
    /\ Arg(i) \in DOMAIN fs
    /\ inode' = fs[Arg(i)]
    /\ ctime' = Derive(ctime, fs[Arg(i)])
    /\ pc' = "gettime"
    /\ hist' = Called(hist, "stat")
    /\ UNCHANGED <<mainVars, now, status, newsigmask, oldsigmask, envVars, win>>

StatEintr ==
    /\ pc = "stat"
    /\ Eintr
    /\ hist' = Called(hist, "stat")
    /\ UNCHANGED <<mainVars, pc, localVars, clock, ticks, swappedBy, fs, sigmask,
                   pending, faults, spin, win>>

\* a change_ctime whose failing stat ends the process
StatErrFatal ==
    /\ pc = "stat"
    /\ Fault
    /\ Exit(1)
    /\ hist' = Failed(Called(hist, "stat"), "stat")
    /\ UNCHANGED <<args, i, use_atime, use_mtime, new_ctime, rfile, localVars,
                   clock, ticks, swappedBy, fs, sigmask, pending, eintr, spin,
                   win>>

StatErr ==
    /\ pc = "stat"
    /\ Fault
    /\ Return(Failed(Called(hist, "stat"), "stat"), 0 - 1)
    /\ UNCHANGED <<args, use_atime, use_mtime, new_ctime, rfile, localVars,
                   clock, ticks, swappedBy, fs, sigmask, pending, eintr, spin,
                   win>>

\* the seconds the clock lags behind the real time
Lag == BootTime.tv_sec + ticks - clock.tv_sec

GetTimeOk ==
    /\ pc = "gettime"
    /\ now' = clock
    /\ pc' = "sigfillset"
    /\ win' = [win EXCEPT !.capClock = clock, !.capTicks = ticks,
                           !.capLag = Lag]
    /\ UNCHANGED <<mainVars, ctime, inode, status, newsigmask, oldsigmask,
                   envVars, hist>>

GetTimeErr ==
    /\ pc = "gettime"
    /\ Fault
    /\ Return(Failed(hist, "gettimeofday"), 0 - 1)
    /\ UNCHANGED <<args, use_atime, use_mtime, new_ctime, rfile, localVars,
                   clock, ticks, swappedBy, fs, sigmask, pending, eintr, spin,
                   win>>

SigFillOk ==
    /\ pc = "sigfillset"
    /\ newsigmask' = Signals
    /\ pc' = "block"
    /\ UNCHANGED <<mainVars, ctime, now, inode, status, oldsigmask, envVars,
                   hist, win>>

SigFillErr ==
    /\ pc = "sigfillset"
    /\ Fault
    /\ Return(Failed(hist, "sigfillset"), 0 - 1)
    /\ UNCHANGED <<args, use_atime, use_mtime, new_ctime, rfile, localVars,
                   clock, ticks, swappedBy, fs, sigmask, pending, eintr, spin,
                   win>>

\* a change_ctime that saves the mask and installs none
BlockSkipped ==
    /\ pc = "block"
    /\ oldsigmask' = sigmask
    /\ pc' = IF timerisset(ctime) THEN "set" ELSE "chmod"
    /\ hist' = Called(hist, "block")
    /\ UNCHANGED <<mainVars, ctime, now, inode, status, newsigmask, clock,
                   ticks, swappedBy, fs, sigmask, pending, faults, eintr, spin,
                   win>>

\* sigprocmask(SIG_SETMASK, &newsigmask, &oldsigmask)
BlockOk ==
    /\ pc = "block"
    /\ oldsigmask' = sigmask
    /\ sigmask' = newsigmask
    /\ pc' = IF timerisset(ctime) THEN "set" ELSE "chmod"
    /\ hist' = Called(hist, "block")
    /\ UNCHANGED <<mainVars, ctime, now, inode, status, newsigmask, clock,
                   ticks, swappedBy, fs, pending, faults, eintr, spin, win>>

BlockErr ==
    /\ pc = "block"
    /\ Fault
    /\ Return(Failed(Called(hist, "block"), "block"), 0 - 1)
    /\ UNCHANGED <<args, use_atime, use_mtime, new_ctime, rfile, localVars,
                   clock, ticks, swappedBy, fs, sigmask, pending, eintr, spin,
                   win>>

\* settimeofday(2) takes tv when its fields are in range
ValidTimeval(tv) ==
    tv.tv_sec >= 0 /\ tv.tv_usec >= 0 /\ tv.tv_usec < 1000000

\* settimeofday(&ctime, NULL)
SetOk ==
    /\ pc = "set"
    /\ ValidTimeval(ctime)
    /\ clock' = ctime
    /\ swappedBy' = i
    /\ pc' = "chmod"
    /\ hist' = Called(hist, "set")
    /\ UNCHANGED <<mainVars, localVars, ticks, fs, sigmask, pending, faults,
                   eintr, spin, win>>

\* a failure of settimeofday(&ctime) that falls through to chmod
AfterSetFallsThrough == "chmod"

\* where a failure of settimeofday(&ctime) goes: goto end
AfterSetErr == "unblock"

\* settimeofday(&ctime, NULL) fails: with EINVAL when the fields are out of
\* range, with another error (EPERM) when the environment says so
SetErr ==
    /\ pc = "set"
    /\ IF ValidTimeval(ctime) THEN Fault ELSE UNCHANGED faults
    /\ status' = Dec(status)
    /\ pc' = AfterSetErr
    /\ hist' = Failed(Called(hist, "set"), "set")
    /\ UNCHANGED <<mainVars, ctime, now, inode, newsigmask, oldsigmask, clock,
                   ticks, swappedBy, fs, sigmask, pending, eintr, spin, win>>

\* chmod(file, inode.st_mode) stamps the inode with the clock's time
Touched(f) ==
    [fs EXCEPT ![f].st_mode = inode.st_mode,
               ![f].st_ctim = [tv_sec |-> clock.tv_sec,
                               tv_nsec |-> clock.tv_usec * 1000]]

\* a change_ctime that restores the clock whether or not it had set it
ChmodOkThenRestore ==
    /\ pc = "chmod"
    /\ fs' = Touched(Arg(i))
    /\ spin' = ~spin
    /\ pc' = "restore"
    /\ hist' = Called(hist, "chmod")
    /\ UNCHANGED <<mainVars, localVars, clock, ticks, swappedBy, sigmask,
                   pending, faults, eintr, win>>

ChmodOk ==
    /\ pc = "chmod"
    /\ fs' = Touched(Arg(i))
    /\ spin' = ~spin
    /\ pc' = IF timerisset(ctime) THEN "restore" ELSE "unblock"
    /\ hist' = Called(hist, "chmod")
    /\ UNCHANGED <<mainVars, localVars, clock, ticks, swappedBy, sigmask,
                   pending, faults, eintr, win>>

ChmodEintr ==
    /\ pc = "chmod"
    /\ Eintr
    /\ spin' = ~spin
    /\ hist' = Called(hist, "chmod")
    /\ UNCHANGED <<mainVars, pc, localVars, clock, ticks, swappedBy, fs, sigmask,
                   pending, faults, win>>

\* where a non-EINTR failure of chmod() goes: the while loop has no break
AfterChmodErr == "chmod"

ChmodErr ==
    /\ pc = "chmod"
    /\ IF "chmod" \in hist[i].failed THEN UNCHANGED faults ELSE Fault
    /\ status' = Dec(status)
    /\ spin' = ~spin
    /\ pc' = AfterChmodErr
    /\ hist' = Failed(Called(hist, "chmod"), "chmod")
    /\ UNCHANGED <<mainVars, ctime, now, inode, newsigmask, oldsigmask, clock,
                   ticks, swappedBy, fs, sigmask, pending, eintr, win>>

\* a restore that writes the target again
RestoreWritesTarget == ctime

\* the value settimeofday(&now, NULL) writes
RestoreValue == now

RestoreOk ==
    /\ pc = "restore"
    /\ ValidTimeval(RestoreValue)
    /\ clock' = RestoreValue
    /\ swappedBy' = 0
    /\ pc' = "unblock"
    /\ hist' = Called(hist, "restore")
    /\ win' = [win EXCEPT !.resTicks = ticks]
    /\ UNCHANGED <<mainVars, localVars, ticks, fs, sigmask, pending, faults,
                   eintr, spin>>

\* a change_ctime whose failing restore ends the process
RestoreErrFatal ==
    /\ pc = "restore"
    /\ Fault
    /\ Exit(1)
    /\ hist' = Failed(Called(hist, "restore"), "restore")
    /\ UNCHANGED <<args, i, use_atime, use_mtime, new_ctime, rfile, localVars,
                   clock, ticks, swappedBy, fs, sigmask, pending, eintr, spin,
                   win>>

RestoreErr ==
    /\ pc = "restore"
    /\ Fault
    /\ status' = Dec(status)
    /\ pc' = "unblock"
    /\ hist' = Failed(Called(hist, "restore"), "restore")
    /\ UNCHANGED <<mainVars, ctime, now, inode, newsigmask, oldsigmask, clock,
                   ticks, swappedBy, fs, sigmask, pending, eintr, spin, win>>

\* an unblocking sigprocmask that is handed newsigmask
UnblockInstallsNew == newsigmask

\* the mask sigprocmask(SIG_SETMASK, &oldsigmask, NULL) installs
UnblockMask == oldsigmask

\* a pending signal that is no longer blocked is delivered before
\* sigprocmask returns; no handler is installed, so it ends the process
UnblockOk ==
    /\ pc = "unblock"
    /\ sigmask' = UnblockMask
    /\ pending' = pending \cap UnblockMask
    /\ IF pending \subseteq UnblockMask
       THEN Return(Called(hist, "unblock"), IF status # 0 THEN 0 - 1 ELSE 0)
       ELSE /\ pc' = "killed"
            /\ hist' = Called(hist, "unblock")
            /\ UNCHANGED <<i, exitcode>>
    /\ UNCHANGED <<args, use_atime, use_mtime, new_ctime, rfile, localVars,
                   clock, ticks, swappedBy, fs, faults, eintr, spin, win>>

UnblockErr ==
    /\ pc = "unblock"
    /\ Fault
    /\ Return(Failed(Called(hist, "unblock"), "unblock"), 0 - 1)
    /\ UNCHANGED <<args, use_atime, use_mtime, new_ctime, rfile, localVars,
                   clock, ticks, swappedBy, fs, sigmask, pending, eintr, spin,
                   win>>

(***************************************************************************)
(* The environment: time passes, signals arrive.                           *)
(***************************************************************************)
Tick ==
    /\ Running
    /\ ticks < MaxTicks
    /\ ticks' = ticks + 1
    /\ clock' = [clock EXCEPT !.tv_sec = @ + 1]
    /\ UNCHANGED <<mainVars, pc, localVars, swappedBy, fs, sigmask, pending,
                   faults, eintr, spin, hist, win>>

\* the signals sent to the process
Sent == {"SIGTERM"}

\* a signal is sent to the process: held back while blocked, fatal otherwise
Signal ==
    /\ Running
    /\ \E s \in Sent :
          IF s \in sigmask
          THEN pending' = pending \cup {s} /\ UNCHANGED pc
          ELSE pc' = "killed" /\ UNCHANGED pending
    /\ UNCHANGED <<mainVars, localVars, clock, ticks, swappedBy, fs, sigmask,
                   faults, eintr, spin, hist, win>>

\* a step of the option loop
Opts ==
    \/ CaseA \/ CaseM \/ CaseR \/ CaseT \/ CaseH \/ CaseDefault \/ OptsEnd

\* a step of the program after the option loop
Run ==
    \/ RStatOk \/ RStatEintr \/ RStatErr
    \/ Call \/ Done
    \/ StatOk \/ StatEintr \/ StatErr
    \/ GetTimeOk \/ GetTimeErr
    \/ SigFillOk \/ SigFillErr
    \/ BlockOk \/ BlockErr
    \/ SetOk \/ SetErr
    \/ ChmodOk \/ ChmodEintr \/ ChmodErr
    \/ RestoreOk \/ RestoreErr
    \/ UnblockOk \/ UnblockErr

\* a step of the program
Step == Opts \/ Run

Next == Step \/ Tick \/ Signal

Spec == Init /\ [][Next]_vars

\* the program is scheduled: once the options are read it takes its next
\* step; what each system call returns stays the environment's choice
FairSpec == Spec /\ WF_vars(Run)

(***************************************************************************)
(* Vocabulary of the properties.                                           *)
(***************************************************************************)
\* the longest command line
MaxArgs == 2 * MaxOpts + MaxFiles

\* the steps of change_ctime
CallPcs == {"stat", "gettime", "sigfillset", "block", "set", "chmod",
            "restore", "unblock"}

\* the call for argv[j] made the system call, and it did not fail
Did(j, step) == hist[j][step] > 0 /\ step \notin hist[j].failed

\* the option letters of the command line a, read from argv[k] on: an
\* option -r or -t takes the next element as its argument, the first
\* element that is no option ends the options
RECURSIVE Letters(_, _)
Letters(a, k) ==
    IF k > Len(a) \/ a[k] = <<>> \/ Head(a[k]) # "-" THEN {}
    ELSE LET c == IF Len(a[k]) >= 2 THEN a[k][2] ELSE "" IN
         {c} \cup Letters(a, IF c \in {"r", "t"} THEN k + 2 ELSE k + 1)

\* the command line combines -t with -a or -m, -t with -r, or -a with -m
Conflicting(a) ==
    LET l == Letters(a, 1) IN
    \/ "t" \in l /\ l \cap {"a", "m", "r"} # {}
    \/ {"a", "m"} \subseteq l

\* no target file was stat'ed, no clock was set and no chmod was issued
Untouched ==
    /\ \A j \in DOMAIN hist :
          hist[j].stat = 0 /\ hist[j].set = 0 /\ hist[j].chmod = 0
    /\ fs = FS0
    /\ swappedBy = 0

\* the clock reads what gettimeofday() captured in the latest call plus
\* the real time elapsed since the real time t
ClockIsCapturePlusSince(t) ==
    /\ clock.tv_usec = win.capClock.tv_usec
    /\ clock.tv_sec = win.capClock.tv_sec + ticks - t

(***************************************************************************)
(* C1: in change_ctime, when the clock has been set to a non-zero target   *)
(* and the chmod that follows fails with an error other than EINTR, the    *)
(* failure is reported and the clock is still set back with                *)
(* settimeofday(&now), after which the mask is restored and the function   *)
(* returns.  Checked under FairSpec.                                       *)
(***************************************************************************)
ChmodFailedAfterSet(j) ==
    /\ j \in DOMAIN hist
    /\ Did(j, "set")
    /\ "chmod" \in hist[j].failed

RestoreCalled(j) ==
    /\ j \in DOMAIN hist
    /\ hist[j].restore > 0

C1_ChmodFailureStillRestores ==
    \A j \in 1..MaxArgs :
        [](ChmodFailedAfterSet(j) => <>RestoreCalled(j))

(***************************************************************************)
(* C2: as claimed, a failure of the restoring settimeofday(&now) ends the  *)
(* whole run: no later target file is stat'ed, has the clock set for it or *)
(* is chmod'ed.                                                            *)
(***************************************************************************)
NotStarted(k) ==
    hist[k].stat = 0 /\ hist[k].set = 0 /\ hist[k].chmod = 0

C2_RestoreFailureIsFatal ==
    \A j \in DOMAIN hist :
        "restore" \in hist[j].failed =>
            \A k \in DOMAIN hist : k > j => NotStarted(k)

(***************************************************************************)
(* C2, amended: a failure of the restoring settimeofday(&now) is a failure *)
(* of that file only: status is decremented, the unblocking sigprocmask is *)
(* still called, change_ctime returns -1, main prints one diagnostic for   *)
(* the file and goes on with the next one; the process exits only at the   *)
(* end of the list, with exit(0).                                          *)
(***************************************************************************)
\* the call for argv[j] returned -1 and main printed its diagnostic
ReportedFailure(j) ==
    /\ hist[j].returned
    /\ hist[j].ret = 0 - 1
    /\ hist[j].diag = 1
    /\ i > j

\* the run is over only by exit(0), after every file after argv[j]
ExitsOnlyAtEnd(j) ==
    pc = "exit" =>
        /\ exitcode = 0
        /\ \A k \in DOMAIN hist : k > j => hist[k].returned

C2_RestoreFailureIsPerFile ==
    \A j \in DOMAIN hist :
        "restore" \in hist[j].failed =>
            /\ \/ pc = "unblock" /\ i = j /\ status < 0
               \/ hist[j].unblock > 0 /\ pc = "killed"
               \/ hist[j].unblock > 0 /\ ReportedFailure(j)
            /\ ExitsOnlyAtEnd(j)

C2_Witness ==
    \E j \in DOMAIN hist :
        /\ "restore" \in hist[j].failed
        /\ j + 1 \in DOMAIN hist
        /\ Did(j + 1, "chmod")
        /\ hist[j + 1].returned

(***************************************************************************)
(* C3: for a file processed with a non-zero target, the restoring          *)
(* settimeofday writes exactly the value gettimeofday captured for that    *)
(* file, so afterwards the clock has fallen behind the real time by no     *)
(* more than the time between that capture and the restore, and it does    *)
(* not remain at the target; when every system call succeeded the restore  *)
(* has been made by the time the call returns.                             *)
(***************************************************************************)
C3_ClockRestored ==
    /\ win.idx \in DOMAIN hist /\ Did(win.idx, "restore") =>
          /\ swappedBy = 0
          /\ ClockIsCapturePlusSince(win.resTicks)
          /\ Lag - win.capLag >= 0
          /\ Lag - win.capLag <= win.resTicks - win.capTicks
    /\ \A j \in DOMAIN hist :
          hist[j].returned /\ hist[j].failed = {} /\ hist[j].set = 1 =>
              hist[j].restore = 1 /\ hist[j].ret = 0

C3_Witness ==
    /\ pc = "loop"
    /\ win.idx \in DOMAIN hist
    /\ hist[win.idx].returned
    /\ hist[win.idx].failed = {}
    /\ Did(win.idx, "set")
    /\ Did(win.idx, "restore")
    /\ win.resTicks > win.capTicks

(***************************************************************************)
(* C4: as claimed, in every reachable state in which the clock holds a     *)
(* target written by change_ctime and not overwritten by the restore, the  *)
(* signal mask blocks all signals.                                         *)
(***************************************************************************)
C4_SwappedImpliesBlocked ==
    swappedBy # 0 => sigmask = Signals

(***************************************************************************)
(* C4, amended: in every reachable state in which the clock holds a target *)
(* written by change_ctime and the restoring settimeofday of that call has *)
(* not been attempted yet, the signal mask blocks all signals and the      *)
(* process is alive: the mask is filled before the first settimeofday and  *)
(* is set back only after the restore step.  (When the restore fails the   *)
(* clock keeps the target after the mask is set back.)                     *)
(***************************************************************************)
C4_WindowBlocked ==
    /\ pc \in {"set", "chmod", "restore"} => sigmask = Signals
    /\ swappedBy # 0 /\ hist[swappedBy].restore = 0 =>
          /\ sigmask = Signals
          /\ pc \in {"chmod", "restore"}
          /\ i = swappedBy

C4_Witness ==
    /\ swappedBy # 0
    /\ pc = "restore"
    /\ pending # {}

(***************************************************************************)
(* C5: as claimed, when the first settimeofday(&ctime) fails, chmod is     *)
(* never called for that file, no restoring settimeofday is issued, the    *)
(* clock is left as it was, the signal mask is set back to the mask saved  *)
(* at entry and change_ctime returns -1.                                   *)
(***************************************************************************)
SetFailureSkipsTouch(j) ==
    /\ hist[j].chmod = 0
    /\ hist[j].restore = 0
    /\ swappedBy # j
    /\ win.idx = j => ClockIsCapturePlusSince(win.capTicks)
    /\ hist[j].returned => hist[j].ret = 0 - 1

C5_SetFailure ==
    \A j \in DOMAIN hist :
        "set" \in hist[j].failed =>
            /\ SetFailureSkipsTouch(j)
            /\ hist[j].returned /\ win.idx = j => sigmask = win.entryMask

(***************************************************************************)
(* C5, amended: when the first settimeofday(&ctime) fails, chmod is never  *)
(* called for that file, no restoring settimeofday is issued, the clock is *)
(* left as it was and change_ctime returns -1; the signal mask is set back *)
(* to the mask saved at entry provided the unblocking sigprocmask          *)
(* succeeds, and stays fully blocked when it fails.                        *)
(***************************************************************************)
C5_SetFailureUnlessUnblockFails ==
    \A j \in DOMAIN hist :
        "set" \in hist[j].failed =>
            /\ SetFailureSkipsTouch(j)
            /\ hist[j].returned /\ win.idx = j =>
                  /\ hist[j].unblock = 1
                  /\ sigmask = IF "unblock" \in hist[j].failed
                               THEN Signals ELSE win.entryMask

C5_Witness ==
    \E j \in DOMAIN hist :
        /\ "set" \in hist[j].failed
        /\ hist[j].returned
        /\ Did(j, "unblock")
        /\ win.idx = j
        /\ sigmask = win.entryMask
        /\ ticks > win.capTicks

(***************************************************************************)
(* C6: the target files are processed in argument order, one at a time.    *)
(* A call of change_ctime issues at most one settimeofday(&ctime) and at   *)
(* most one settimeofday(&now); signals are held blocked by the call for   *)
(* argv[i] only; and when argv[j] is stat'ed, the call for every earlier   *)
(* target has returned, having issued its restoring settimeofday if it had *)
(* set the clock and its unblocking sigprocmask if it had blocked the      *)
(* signals, so that the clock holds an earlier file's target only if that  *)
(* file's restore failed.                                                  *)
(***************************************************************************)
\* the index of the first element of a, from a[k] on, that is no option
RECURSIVE FirstOperand(_, _)
FirstOperand(a, k) ==
    IF k > Len(a) \/ a[k] = <<>> \/ Head(a[k]) # "-" THEN k
    ELSE LET c == IF Len(a[k]) >= 2 THEN a[k][2] ELSE "" IN
         FirstOperand(a, IF c \in {"r", "t"} THEN k + 2 ELSE k + 1)

Started(j) == hist[j].stat > 0

\* the call for argv[j] has blocked the signals and not yet unblocked them
Open(j) == Did(j, "block") /\ hist[j].unblock = 0

Completed(k) ==
    /\ hist[k].returned
    /\ ~Open(k)
    /\ Did(k, "set") => hist[k].restore = 1
    /\ Did(k, "block") => hist[k].unblock = 1
    /\ swappedBy = k => "restore" \in hist[k].failed

C7_EveryCallReturns ==
    /\ [](pc \in CallPcs => <>(pc \notin CallPcs))
    /\ [](pc = "loop" => <>(pc \in {"exit", "killed"}))

(***************************************************************************)
(* C8: a command line that combines -t with -a or -m, -t with -r, or -a    *)
(* with -m, in any order and with any -t literal, is rejected in the       *)
(* option loop: the process exits with a non-zero status, and no target is *)
(* stat'ed, no clock is set and no chmod is issued.  (Command lines with   *)
(* -h are left out: -h prints the usage and exits with 0.)                 *)
(***************************************************************************)
C8_ConflictsRejected ==
    Conflicting(args) /\ "h" \notin Letters(args, 1) =>
        /\ Untouched
        /\ pc \in {"opts", "exit", "killed"}
        /\ pc = "exit" => exitcode # 0

(***************************************************************************)
(* C9: as claimed, a stat of a target file that fails with an error other  *)
(* than EINTR ends the whole run: no later target file is processed.       *)
(***************************************************************************)
C9_StatFailureIsFatal ==
    \A j \in DOMAIN hist :
        "stat" \in hist[j].failed =>
            \A k \in DOMAIN hist : k > j => hist[k].stat = 0

(***************************************************************************)
(* C9, amended: a stat of a target file that fails with an error other     *)
(* than EINTR ends the call for that file only: change_ctime returns -1    *)
(* at once, without blocking signals, setting the clock or touching the    *)
(* file, main prints one diagnostic for the file and goes on with the next *)
(* one, and the process exits only at the end of the list, with exit(0).   *)
(* A stat that fails with EINTR is retried and fails nothing: a call in    *)
(* which no system call failed otherwise returns 0 without a diagnostic.   *)
(***************************************************************************)
C9_StatFailureIsPerFile ==
    \A j \in DOMAIN hist :
        /\ "stat" \in hist[j].failed =>
              /\ hist[j].failed = {"stat"}
              /\ hist[j].block = 0 /\ hist[j].set = 0 /\ hist[j].chmod = 0
              /\ hist[j].restore = 0 /\ hist[j].unblock = 0
              /\ fs[args[j]] = FS0[args[j]]
              /\ ReportedFailure(j)
              /\ ExitsOnlyAtEnd(j)
        /\ hist[j].returned /\ hist[j].failed = {} =>
              hist[j].ret = 0 /\ hist[j].diag = 0

C9_Witness ==
    \E j \in DOMAIN hist :
        /\ hist[j].failed = {"stat"}
        /\ j + 1 \in DOMAIN hist
        /\ hist[j + 1].stat = 2
        /\ Did(j + 1, "chmod")
        /\ hist[j + 1].returned
        /\ hist[j + 1].ret = 0

(***************************************************************************)
(* C10: change_ctime returns -1 exactly when one of its system calls       *)
(* failed with an error other than EINTR and 0 otherwise; main prints one  *)
(* diagnostic for each file whose call returned -1 and none for the        *)
(* others; and a failure on a file never keeps the later files from being  *)
(* processed: the call in which a system call failed returns and main goes *)
(* on to the next file (unless a signal ends the process).  Checked under  *)
(* FairSpec.                                                               *)
(***************************************************************************)
ReturnMatchesFailures(j) ==
    hist[j].returned =>
        /\ hist[j].ret = IF hist[j].failed # {} THEN 0 - 1 ELSE 0
        /\ hist[j].diag = IF hist[j].ret < 0 THEN 1 ELSE 0

FailedIn(j) == j \in DOMAIN hist /\ hist[j].failed # {}

MovedPast(j) == j \in DOMAIN hist /\ hist[j].returned /\ i > j

C10_BatchContinues ==
    /\ [](\A j \in DOMAIN hist : ReturnMatchesFailures(j))
    /\ \A j \in 1..MaxArgs :
          [](FailedIn(j) => <>(MovedPast(j) \/ pc = "killed"))

(***************************************************************************)
(* C11: on a command line whose only option is -t, for every literal and   *)
(* every target file, a call of change_ctime in which every system call    *)
(* succeeded has set the clock to the instant T of the literal and has     *)
(* made the chmod while the clock held T: the file's ctime is T, up to the *)
(* real time elapsed.                                                      *)
(***************************************************************************)
\* the only option of the command line is -t
OnlyT == Letters(args, 1) = {"t"}

\* the call for argv[j] has returned and none of its system calls failed
Succeeded(j) == hist[j].returned /\ hist[j].failed = {}

\* the ctime of file f is the instant tv, up to the real time elapsed
CtimeIs(f, tv) ==
    /\ fs[f].st_ctim.tv_nsec = tv.tv_usec * 1000
    /\ fs[f].st_ctim.tv_sec - tv.tv_sec \in 0..ticks

C11_CtimeIsTarget ==
    \A j \in DOMAIN hist :
        OnlyT /\ Succeeded(j) =>
            /\ Did(j, "set")
            /\ CtimeIs(args[j], new_ctime)

(***************************************************************************)
(* C12: on a command line whose only option is -a (resp. -m), for every    *)
(* target file and every atime (resp. mtime) it had, a call of             *)
(* change_ctime in which every system call succeeded has set the clock to  *)
(* the file's own atime (resp. mtime), truncated to microseconds, and the  *)
(* file's ctime is that instant, up to the real time elapsed; no file gets *)
(* the instant of another file.                                            *)
(***************************************************************************)
\* the only option of the command line is -a, or it is -m
OnlySelector == Letters(args, 1) \in {{"a"}, {"m"}}

\* the timestamp of file f that the selector names, as f had it
Selected(f) ==
    IF "a" \in Letters(args, 1) THEN TimeOf(FS0[f].st_atim)
    ELSE TimeOf(FS0[f].st_mtim)

C12_CtimeIsOwnTimestamp ==
    \A j \in DOMAIN hist :
        OnlySelector /\ Succeeded(j) =>
            /\ Did(j, "set")
            /\ CtimeIs(args[j], Selected(args[j]))

(***************************************************************************)
(* C13: on a command line with -r R and no -t, the instant is read from R  *)
(* once, before the first target file is stat'ed: R's atime with -a, R's   *)
(* mtime with -m, R's ctime otherwise.  That instant is applied to every   *)
(* target file: a call of change_ctime in which every system call          *)
(* succeeded has set the clock to it and the file's ctime is that instant, *)
(* up to the real time elapsed, whatever the file's own timestamps.  A     *)
(* process that exits with a non-zero status, as when R cannot be stat'ed, *)
(* has touched no target.                                                  *)
(***************************************************************************)
\* the command line has -r and no -t
WithReference == "r" \in Letters(args, 1) /\ "t" \notin Letters(args, 1)

\* the timestamp of the reference file that the options name
RefInstant ==
    IF "a" \in Letters(args, 1) THEN TimeOf(FS0[rfile].st_atim)
    ELSE IF "m" \in Letters(args, 1) THEN TimeOf(FS0[rfile].st_mtim)
    ELSE TimeOf(FS0[rfile].st_ctim)

C13_CtimeIsReference ==
    WithReference =>
        /\ pc = "exit" /\ exitcode # 0 => Untouched
        /\ \A j \in DOMAIN hist :
              /\ hist[j].stat > 0 => new_ctime = RefInstant
              /\ Succeeded(j) =>
                    /\ Did(j, "set")
                    /\ CtimeIs(args[j], RefInstant)

(***************************************************************************)
(* C14: every instant handed to settimeofday(&ctime) has its microseconds  *)
(* in 0..999999, for every -t literal, whatever the digits after the dot,  *)
(* and every timestamp taken from a reference or a target file.            *)
(***************************************************************************)
C14_MicrosecondsInRange ==
    pc = "set" => ctime.tv_usec \in 0..999999

(***************************************************************************)
(* C15: a -t literal that cannot be parsed into at least a seconds value   *)
(* (here: one that holds no digit) makes the run fail before any file is   *)
(* touched: the process exits with a non-zero status, and no target is     *)
(* stat'ed, no clock is set and no chmod is issued.                        *)
(***************************************************************************)
\* the literal s holds no digit
NoDigit(s) == \A k \in 1..Len(s) : s[k] \notin Digits

\* the command line begins with -t and a literal that holds no digit
UnparseableLiteral ==
    /\ Len(args) >= 2
    /\ args[1] = OptT
    /\ NoDigit(args[2])

C15_BadLiteralRejected ==
    UnparseableLiteral =>
        /\ Untouched
        /\ pc \in {"opts", "exit", "killed"}
        /\ pc = "exit" => exitcode # 0

(***************************************************************************)
(* C17: when the instant of a call of change_ctime is unset, {0, 0}, after *)
(* the derivation from the file's own timestamps, the call never calls     *)
(* settimeofday, neither to set nor to restore the clock: the clock runs   *)
(* on from the value gettimeofday captured, only chmod is performed, and   *)
(* the file's ctime is the time the clock had then, the current time.      *)
(***************************************************************************)
\* the latest call is the one for argv[j], its stat succeeded and the
\* instant it derived is unset
Unset(j) ==
    /\ win.idx = j
    /\ pc # "stat"
    /\ Did(j, "stat")
    /\ ~timerisset(ctime)

\* the call for argv[j], whose instant is unset, is past its chmod loop
PastChmod(j) == (i = j /\ pc = "unblock") \/ hist[j].unblock > 0

RECURSIVE Split(_)
Split(s) ==
    LET k == strchr(s, ":") IN
    IF k = 0 THEN <<s>>
    ELSE <<SubSeq(s, 1, k - 1)>> \o Split(From(s, k + 1))

\* the number a field stands for: its leading digits, 0 when it has none
RECURSIVE FieldValue(_)
FieldValue(f) ==
    IF f = <<>> \/ Head(f) \notin Digits THEN 0
    ELSE LET k == CHOOSE k \in 1..Len(f) :
                     /\ \A m \in 1..k : f[m] \in Digits
                     /\ k = Len(f) \/ f[k + 1] \notin Digits
         IN  IF k = 1 THEN DigitVal(f[1])
             ELSE 10 * FieldValue(SubSeq(f, 1, k - 1)) + DigitVal(f[k])

\* the broken-down time the literal s stands for at the time t: q = 1..6
\* numbers year, month, day, hour, minute, second
ExpectedTm(s, t) ==
    LET fields == Split(s)
        given  == IF Len(fields) > 6 THEN 6 ELSE Len(fields)
        Has(q) == q > 6 - given
        Val(q) == FieldValue(fields[q - (6 - given)])
        tp     == localtime(t)
    IN  [tm_year |-> IF Has(1) THEN Val(1) - 1900 ELSE tp.tm_year,
         tm_mon  |-> IF Has(2) THEN Val(2) - 1 ELSE tp.tm_mon,
         tm_mday |-> IF Has(3) THEN Val(3) ELSE tp.tm_mday,
         tm_hour |-> IF Has(4) THEN Val(4) ELSE tp.tm_hour,
         tm_min  |-> IF Has(5) THEN Val(5) ELSE tp.tm_min,
         tm_sec  |-> Val(6)]

\* the fields of tm lie in the ranges of a calendar date and a time of day
InRange(tm) ==
    /\ tm.tm_mon \in 0..11 /\ tm.tm_mday \in 1..28
    /\ tm.tm_hour \in 0..23 /\ tm.tm_min \in 0..59 /\ tm.tm_sec \in 0..59

\* the command line is -t literal [file] and -t has been read
LiteralRead ==
    /\ Len(args) >= 2
    /\ args[1] = OptT
    /\ FirstOperand(args, 1) = 3
    /\ i >= 3

C18_FieldsByDelimiters ==
    LiteralRead =>
        \E d \in 0..ticks :
            LET tm == ExpectedTm(args[2], BootTime.tv_sec + d) IN
            /\ new_ctime.tv_sec = mktime(tm)
            /\ InRange(tm) => localtime(new_ctime.tv_sec) = tm

C18_Witness ==
    /\ LiteralRead
    /\ args[2] = LitHour
    /\ pc = "loop"
    /\ ticks > 0
    /\ localtime(new_ctime.tv_sec) =
          [localtime(BootTime.tv_sec) EXCEPT !.tm_hour = 1, !.tm_min = 0,
                                             !.tm_sec = 3]

(***************************************************************************)
(* C19: chmod is called with the mode that the stat of the same call       *)
(* returned for the same file, so a file keeps its mode bits, its atime    *)
(* and its mtime whatever change_ctime did to it: only its ctime changes,  *)
(* and a file for which no chmod was issued is not changed at all.         *)
(***************************************************************************)
\* no chmod was issued for the file f
NeverTouched(f) ==
    \A j \in DOMAIN hist : args[j] = f => hist[j].chmod = 0

C19_OnlyCtimeChanges ==
    /\ pc \in CallPcs \ {"stat"} => inode = FS0[Arg(i)]
    /\ \A f \in DOMAIN fs :
          /\ fs[f].st_mode = FS0[f].st_mode
          /\ fs[f].st_atim = FS0[f].st_atim
          /\ fs[f].st_mtim = FS0[f].st_mtim
          /\ NeverTouched(f) => fs[f] = FS0[f]

C19_Witness ==
    \E j \in DOMAIN hist :
        /\ Did(j, "chmod")
        /\ hist[j].returned
        /\ fs[args[j]].st_ctim # FS0[args[j]].st_ctim
        /\ j + 1 \in DOMAIN hist
        /\ pc = "unblock"
        /\ Did(j + 1, "chmod")
        /\ inode.st_mode # FS0[args[j]].st_mode
        /\ fs[args[j + 1]].st_ctim # FS0[args[j + 1]].st_ctim

(***************************************************************************)
(* C20: on every path by which change_ctime returns, provided the          *)
(* unblocking sigprocmask did not fail, the signal mask is the mask the    *)
(* process had when change_ctime was entered.  Hence, as long as no        *)
(* unblocking sigprocmask has failed, every call is entered with the mask  *)
(* the process started with, and outside the steps between the blocking    *)
(* and the unblocking sigprocmask the process has that mask.               *)
(***************************************************************************)
NoUnblockFailed == \A k \in DOMAIN hist : "unblock" \notin hist[k].failed

C20_MaskRestoredOnReturn ==
    /\ \A j \in DOMAIN hist :
          hist[j].returned /\ win.idx = j /\ "unblock" \notin hist[j].failed =>
              sigmask = win.entryMask
    /\ NoUnblockFailed =>
          /\ win.idx \in DOMAIN hist => win.entryMask = InitMask
          /\ pc \notin {"set", "chmod", "restore", "unblock"} =>
                sigmask = InitMask

C20_Witness ==
    \E j \in DOMAIN hist :
        /\ hist[j].returned
        /\ "restore" \in hist[j].failed
        /\ Did(j, "unblock")
        /\ win.idx = j + 1
        /\ win.entryMask = InitMask
        /\ pc = "loop"
        /\ hist[j + 1].returned
        /\ "gettimeofday" \in hist[j + 1].failed
        /\ sigmask = InitMask

====
